---- MODULE Spec2Model ----
(***************************************************************************)
(* Model of sonos_player: the orchestration engine of                      *)
(* SonosController.play_url_per_device (speakers.py) driving a fixed       *)
(* inventory of renderer devices through snapshot, start, wait-for-start,  *)
(* wait-for-completion and restore.                                        *)
(*                                                                         *)
(* A device is modelled by the state its control actions configure         *)
(* (status, uri, meta, vol).  What a device reports when it is polled is   *)
(* an input of the poll, drawn from a small set.  A volume fraction is the *)
(* exact rational volume / FracDen.  Every control action takes CallTicks  *)
(* of wall-clock time and may raise.                                       *)
(***************************************************************************)
EXTENDS Integers, Sequences, FiniteSets, TLC

\* ------------------------------------------------------------------ bounds
FracDen == 4            \* volume fractions are k / FracDen
MaxStartTimeout == 2    \* start_timeout_seconds ranges over 0..MaxStartTimeout
MaxDoneRounds == 2      \* polling rounds of wait-for-completion explored
CallTicks == 1          \* wall-clock ticks one control action takes

\* ------------------------------------------------------- program constants
VolumeFloor == 0        \* set_volume: max(0, ...)
VolumeCeil == 100       \* set_volume: min(100, ...)
SleepSeconds == 1       \* time.sleep(1) between polling rounds

\* --------------------------------------------------------------- inventory
\* self.devices, in inventory order.
DeviceIds == <<"d1", "d2", "d3">>

DeviceSet == {DeviceIds[k] : k \in 1..Len(DeviceIds)}

\* Device.volume_range of each inventory device, as get_volume_range resolved it.
volume_range ==
    [d \in DeviceSet |->
        CASE d = "d1" -> <<0, 100>>
          [] d = "d2" -> <<0, 10>>
          [] OTHER    -> <<0, 120>>]

\* The URLs a play request assigns to devices.
ClipUrls == {"clipA", "clipB"}

NoUri == ""

\* Mutant of playing: every status but STOPPED counts as playing.
playing_NotStopped(st) == st.state # "STOPPED"

\* TransportState.playing
playing(st) == st.state = "PLAYING"

\* didl_lite_meta(uri, title, mime): the fragment carries title, mime and uri.
didl_lite_meta(uri, title, mime) == <<"DIDL-Lite", title, mime, uri>>

NoMeta == <<"DIDL-Lite", "", "", "">>

RadioMeta == didl_lite_meta("radio", "Radio", "audio/aac")

\* str.upper() on the status strings a device reports.
Upper(s) ==
    CASE s = "playing"       -> "PLAYING"
      [] s = "stopped"       -> "STOPPED"
      [] s = "transitioning" -> "TRANSITIONING"
      [] OTHER               -> s

\* What a device may report to GetTransportInfo / GetMediaInfo while polled.
ReportedStatuses == {"PLAYING", "playing", "TRANSITIONING", "STOPPED"}

ReportedUris == ClipUrls \cup {"other"}

\* ------------------------------------------------------------------- state
VARIABLES
    dev,                    \* device id -> [status, uri, meta, vol] it is set to
    entry,                  \* the method the request enters by
    device_ids,             \* play_audio's parameter device_ids
    urls,                   \* parameter urls: target id -> URL
    volume,                 \* parameter volume, as the numerator of volume / FracDen
    start_timeout_seconds,  \* parameter
    pc,                     \* position in play_url_per_device
    devices,                \* local devices: the targets in inventory order
    prev_states,            \* local prev_states
    i,                      \* index of the device the current loop is at
    url,                    \* local url (the start loop's variable)
    devices_switched_uri,   \* local
    devices_done_playing,   \* local
    round,                  \* iterations of the wait-for-start loop completed
    done_rounds,            \* polling rounds of wait-for-completion completed
    exc,                    \* exception in flight through the finally block
    result,                 \* how the call ended
    now,                    \* time.time()
    t1,                     \* local t1
    \* history of the run
    contacted,              \* devices a control action was issued to
    last,                   \* the last control action issued
    restored,               \* restore-phase set_volume calls issued, in order
    faults,                 \* the control actions that raised, in order
    own_switched,           \* devices seen in wait-for-start reporting their own URL
    own_done,               \* devices seen done in wait-for-completion, by their own URL
    t_done,                 \* time at which wait-for-completion completed
    calls,                  \* the control actions issued, in order
    dev0,                   \* dev as it was before the first request
    \* ssdp_discover and SonosController.__init__
    dpc,                    \* position in the construction of the controller
    wire,                   \* the discovery responses not yet received, in arrival order
    max_results,            \* ssdp_discover's parameter
    results,                \* ssdp_discover's local results, then __init__'s responses
    seen_locations,         \* ssdp_discover's local
    received,               \* the responses recvfrom returned, in order
    h,                      \* index of the response __init__'s loop is at
    self_devices,           \* self.devices
    loads,                  \* the load_device_info calls made, in order
    \* concurrent requests (server.py) and concurrent play_url_per_device calls
    threads,                \* thread id -> the locals of the request it runs
    play_lock,              \* the thread holding play_lock, NoThread when free
    current_mime_type,      \* create_app's nonlocal
    current_audio_bytes,    \* create_app's nonlocal
    current_audio_hash      \* create_app's nonlocal

vars == <<dev, entry, device_ids, urls, volume, start_timeout_seconds, pc, devices, prev_states, i,
          url, devices_switched_uri, devices_done_playing, round, done_rounds,
          exc, result, now, t1, contacted, last, restored, faults,
          own_switched, own_done, t_done, calls, dev0,
          dpc, wire, max_results, results, seen_locations, received, h,
          self_devices, loads,
          threads, play_lock, current_mime_type, current_audio_bytes,
          current_audio_hash>>

thread_vars == <<threads, play_lock, current_mime_type, current_audio_bytes,
                 current_audio_hash>>

discovery_vars == <<dpc, wire, max_results, results, seen_locations, received, h,
                    self_devices, loads>>

\* The variables a play request leaves alone.
outside == <<discovery_vars, thread_vars>>

params == <<entry, device_ids, urls, volume, start_timeout_seconds>>

NoExc == [dev |-> "", op |-> "none"]

Err(d, op) == [dev |-> d, op |-> op]

NoResult == [kind |-> "none", err |-> NoExc, value |-> 0]

\* A control action as issued: the device, the helper called, the phase it was
\* called in, set_volume's argument and the DesiredVolume sent, the URI sent
\* (set_uri) or reported (get_transport_state), the metadata sent, and whether
\* the call returned (ok) or raised.
NoCall == [dev |-> "", op |-> "none", phase |-> "", arg |-> 0, sent |-> 0,
           uri |-> NoUri, meta |-> NoMeta, ok |-> TRUE]

Call(d, op, phase, ok) ==
    [dev |-> d, op |-> op, phase |-> phase, arg |-> 0, sent |-> 0,
     uri |-> NoUri, meta |-> NoMeta, ok |-> ok]

N == Len(devices)

AllFalse(n) == [k \in 1..n |-> FALSE]

All(flags) == \A k \in 1..Len(flags) : flags[k]

\* ------------------------------------------------------------ volume maths
\* int(x) for the rational a / b, b > 0: truncation towards zero.
TruncDiv(a, b) == IF a >= 0 THEN a \div b ELSE -((-a) \div b)

Min(a, b) == IF a < b THEN a ELSE b

Max(a, b) == IF a > b THEN a ELSE b

\* set_volume: volume = max(0, min(100, int(volume)))
ClampVolume(v) == Max(VolumeFloor, Min(VolumeCeil, v))

\* int(max(0, min(1, volume)) * (max_vol - min_vol) + min_vol), volume = n / FracDen
StartVolume(n, range) ==
    TruncDiv(Max(0, Min(FracDen, n)) * (range[2] - range[1]) + range[1] * FracDen,
             FracDen)

\* Mutant of VolumeRejected: only a negative volume is rejected.
VolumeRejected_OnlyNegative(n) == n < 0

\* if volume < 0 or volume > 1: raise ValueError
VolumeRejected(n) == n < 0 \/ n > FracDen

\* ------------------------------------------------------------ initial state
\* What a device may be doing before a play request arrives.
PriorStates(d) ==
    { [status |-> "PLAYING", uri |-> "radio", meta |-> RadioMeta,
       vol |-> volume_range[d][2]],
      [status |-> "PAUSED_PLAYBACK", uri |-> "radio", meta |-> RadioMeta,
       vol |-> volume_range[d][1] + 1],
      [status |-> "STOPPED", uri |-> NoUri, meta |-> NoMeta,
       vol |-> volume_range[d][2]] }

\* The urls arguments explored: any assignment of URLs to any set of targets.
UrlChoices == UNION {[T -> ClipUrls] : T \in SUBSET DeviceSet}

\* urls before play_audio has built it.
NoUrls == [d \in {} |-> NoUri]

\* An identifier no inventory device has.
UnknownId == "dX"

\* device_ids: None, or a sequence of identifiers, kept as the set of its members
\* (the code only tests membership).
NoneIds == [given |-> FALSE, ids |-> {}]

\* The selectors explored: None, and every set of identifiers among that of the
\* second device and the unknown one.
DeviceIdsChoices ==
    {NoneIds} \cup {[given |-> TRUE, ids |-> S] : S \in SUBSET {"d2", UnknownId}}

VolumeNums == (-1)..(FracDen + 1)

\* No controller is being constructed.
DiscoveryIdle ==
    /\ dpc = "idle"
    /\ wire = <<>>
    /\ max_results = 0
    /\ results = <<>>
    /\ seen_locations = {}
    /\ received = <<>>
    /\ h = 1
    /\ self_devices = <<>>
    /\ loads = <<>>

NoThread == ""

\* None as the value of one of create_app's nonlocals.
NoCurrent == ""

\* No request thread exists.
ThreadsIdle ==
    /\ threads = [t \in {} |-> 0]
    /\ play_lock = NoThread
    /\ current_mime_type = NoCurrent
    /\ current_audio_bytes = NoCurrent
    /\ current_audio_hash = NoCurrent

Idle ==
    /\ devices = <<>>
    /\ prev_states = <<>>
    /\ i = 1
    /\ url = NoUri
    /\ devices_switched_uri = <<>>
    /\ devices_done_playing = <<>>
    /\ round = 0
    /\ done_rounds = 0
    /\ exc = NoExc
    /\ result = NoResult
    /\ now = 0
    /\ t1 = 0
    /\ contacted = {}
    /\ last = NoCall
    /\ restored = <<>>
    /\ faults = <<>>
    /\ own_switched = {}
    /\ own_done = {}
    /\ t_done = 0
    /\ calls = <<>>

\* The nominal request: every device, playing the radio, is sent the same clip.
NominalDev ==
    [d \in DeviceSet |-> [status |-> "PLAYING", uri |-> "radio", meta |-> RadioMeta,
                          vol |-> volume_range[d][2]]]

NominalUrls == [d \in DeviceSet |-> "clipA"]

\* The requests explored: each group of inputs ranges over all its values while
\* the other groups are nominal; of the devices, at most two are found doing
\* something else than playing the radio.
Init ==
    /\ dev \in [DeviceSet -> UNION {PriorStates(d) : d \in DeviceSet}]
    /\ \A d \in DeviceSet : dev[d] \in PriorStates(d)
    /\ \E d \in DeviceSet : dev[d] = NominalDev[d]
    /\ entry \in {"play_url_per_device", "play_audio"}
    /\ IF entry = "play_audio"
         THEN device_ids \in DeviceIdsChoices /\ urls = NoUrls /\ pc = "play_audio"
         ELSE device_ids = NoneIds /\ urls \in UrlChoices /\ pc = "validate"
    /\ volume \in VolumeNums
    /\ start_timeout_seconds \in 0..MaxStartTimeout
    /\ Cardinality({g \in {"dev", "entry", "urls", "volume", "timeout"} :
            \/ g = "dev" /\ dev # NominalDev
            \/ g = "entry" /\ entry = "play_audio"
            \/ g = "urls" /\ entry = "play_url_per_device" /\ urls # NominalUrls
            \/ g = "volume" /\ volume # FracDen - 1
            \/ g = "timeout" /\ start_timeout_seconds # MaxStartTimeout}) <= 1
    /\ dev0 = dev
    /\ Idle
    /\ DiscoveryIdle
    /\ ThreadsIdle

\* ---------------------------------------------------------------- helpers
\* The entry of `calls` for a control action: what a read reported is not kept.
Logged(call) ==
    IF call.op = "get_transport_state" THEN [call EXCEPT !.uri = NoUri] ELSE call

\* n control actions were issued to one device, `call` the last of them; the
\* one before it, if any, is the get_transport_state of a snapshot iteration.
Issued(n, call) ==
    /\ contacted' = contacted \cup {call.dev}
    /\ last' = call
    /\ calls' = calls \o (IF n = 2
                          THEN <<Call(call.dev, "get_transport_state", call.phase, TRUE)>>
                          ELSE <<>>)
                      \o <<Logged(call)>>
    /\ faults' = IF call.ok THEN faults ELSE Append(faults, call)
    /\ now' = now + n * CallTicks

\* Leaving the try block, normally (e = NoExc) or by an exception e.
\* The polling locals are dead from here on and are cleared.
EnterFinally(e) ==
    /\ exc' = e
    /\ pc' = "restore_vol"
    /\ i' = 1
    /\ devices_switched_uri' = <<>>
    /\ devices_done_playing' = <<>>
    /\ round' = 0
    /\ done_rounds' = 0
    /\ own_switched' = {}
    /\ own_done' = {}

\* ------------------------------------------------------------- play_audio
\* Mutant of PlayAudio: the selector is not applied.
PlayAudio_IgnoresSelector ==
    /\ pc = "play_audio"
    /\ \E u \in ClipUrls : urls' = [d \in DeviceSet |-> u]
    /\ pc' = "validate"
    /\ UNCHANGED <<dev, entry, device_ids, volume, start_timeout_seconds, dev0, outside,
                   devices, prev_states, i, url, devices_switched_uri,
                   devices_done_playing, round, done_rounds, exc, result, now, t1,
                   contacted, last, calls, restored, faults, own_switched, own_done,
                   t_done>>

\* speakers.py 363-372: devices = self.devices, or those whose id is in
\* device_ids; play_url_per_device(urls={d.id: url for d in devices}, ...)
PlayAudio ==
    /\ pc = "play_audio"
    /\ LET selected == IF device_ids.given
                       THEN SelectSeq(DeviceIds, LAMBDA x : x \in device_ids.ids)
                       ELSE DeviceIds
       IN \E u \in ClipUrls :
            urls' = [d \in {selected[k] : k \in 1..Len(selected)} |-> u]
    /\ pc' = "validate"
    /\ UNCHANGED <<dev, entry, device_ids, volume, start_timeout_seconds, dev0, outside,
                   devices, prev_states, i, url, devices_switched_uri,
                   devices_done_playing, round, done_rounds, exc, result, now, t1,
                   contacted, last, calls, restored, faults, own_switched, own_done,
                   t_done>>

\* ------------------------------------------------- validate and snapshot
\* speakers.py 405-407
Validate ==
    /\ pc = "validate"
    /\ IF VolumeRejected(volume)
         THEN /\ result' = [kind |-> "raised", err |-> Err("", "ValueError"), value |-> 0]
              /\ pc' = "done"
              /\ UNCHANGED devices
         ELSE /\ devices' = SelectSeq(DeviceIds, LAMBDA x : x \in DOMAIN urls)
              /\ pc' = "snapshot"
              /\ UNCHANGED result
    /\ UNCHANGED <<dev, params, dev0, outside, prev_states, i, url, devices_switched_uri,
                   devices_done_playing, round, done_rounds, exc, now, t1, contacted,
                   last, calls, restored, faults, own_switched, own_done, t_done>>

\* get_transport_state(d): the state a device reports, status upper-cased.
TransportStateOf(status, uri, meta) ==
    [state |-> Upper(status), uri |-> uri, meta |-> meta]

\* Mutant of Snapshot: the snapshot loop runs inside the try block, so a read
\* that raises is followed by the restoration of the devices snapshotted so far.
Snapshot_InsideTry ==
    /\ pc = "snapshot"
    /\ i <= N
    /\ LET d == devices[i] IN
       \E k \in 0..2 :
         IF k = 0
         THEN /\ prev_states' = Append(prev_states,
                    [state |-> [state |-> dev[d].status, uri |-> dev[d].uri,
                                meta |-> dev[d].meta],
                     vol |-> dev[d].vol])
              /\ i' = i + 1
              /\ Issued(2, Call(d, "get_volume", "snapshot", TRUE))
              /\ UNCHANGED <<pc, exc, devices>>
         ELSE /\ exc' = Err(d, IF k = 2 THEN "get_volume" ELSE "get_transport_state")
              /\ pc' = "restore_vol"
              /\ i' = 1
              /\ devices' = SubSeq(devices, 1, Len(prev_states))
              /\ Issued(k, Call(d, IF k = 2 THEN "get_volume" ELSE "get_transport_state",
                                "snapshot", FALSE))
              /\ UNCHANGED prev_states
    /\ UNCHANGED <<dev, params, dev0, outside, url, devices_switched_uri,
                   devices_done_playing, round, done_rounds, result, t1,
                   restored, own_switched, own_done, t_done>>

\* speakers.py 410-413: one iteration; helper call k of the two raises (k = 0: none).
Snapshot ==
    /\ pc = "snapshot"
    /\ i <= N
    /\ LET d == devices[i] IN
       \E k \in 0..2 :
         IF k = 0
         THEN /\ prev_states' = Append(prev_states,
                    [state |-> TransportStateOf(dev[d].status, dev[d].uri, dev[d].meta),
                     vol |-> dev[d].vol])
              /\ i' = i + 1
              /\ Issued(2, Call(d, "get_volume", "snapshot", TRUE))
              /\ UNCHANGED <<pc, result>>
         ELSE /\ result' = [kind |-> "raised",
                            err |-> Err(d, IF k = 2 THEN "get_volume"
                                                    ELSE "get_transport_state"),
                            value |-> 0]
              /\ pc' = "done"
              /\ Issued(k, Call(d, IF k = 2 THEN "get_volume" ELSE "get_transport_state",
                                "snapshot", FALSE))
              /\ UNCHANGED <<prev_states, i>>
    /\ UNCHANGED <<dev, params, dev0, outside, devices, url, devices_switched_uri,
                   devices_done_playing, round, done_rounds, exc, t1,
                   restored, own_switched, own_done, t_done>>

\* speakers.py 415-417: t1 = time.time(); the try block is entered.
SnapshotEnd ==
    /\ pc = "snapshot"
    /\ i = N + 1
    /\ t1' = now
    /\ pc' = "start_stop"
    /\ i' = 1
    /\ UNCHANGED <<dev, params, dev0, outside, devices, prev_states, url, devices_switched_uri,
                   devices_done_playing, round, done_rounds, exc, result, now,
                   contacted, last, calls, restored, faults, own_switched, own_done,
                   t_done>>

\* ------------------------------------------------------------ start phase
\* The variables no start-phase step changes.
StartFrame ==
    UNCHANGED <<params, dev0, outside, devices, prev_states, result, t1, restored, t_done>>

\* Mutant of StartRaises: the exception of a start-phase call is swallowed.
StartRaises_Swallowed(call) ==
    /\ EnterFinally(NoExc)
    /\ Issued(1, call)
    /\ UNCHANGED dev

\* A start-phase call raised: the try block is left by its exception.
StartRaises(call) ==
    /\ EnterFinally(Err(call.dev, call.op))
    /\ Issued(1, call)
    /\ UNCHANGED dev

\* speakers.py 417-421: url = urls[dev.id]; new_meta = ...; stop(dev)
StartStop ==
    /\ pc = "start_stop"
    /\ i <= N
    /\ url' = urls[devices[i]]
    /\ \/ /\ dev' = [dev EXCEPT ![devices[i]].status = "STOPPED"]
          /\ Issued(1, Call(devices[i], "stop", "start", TRUE))
          /\ pc' = "start_vol"
          /\ UNCHANGED <<i, exc, devices_switched_uri, devices_done_playing, round,
                          done_rounds, own_switched, own_done>>
       \/ StartRaises(Call(devices[i], "stop", "start", FALSE))
    /\ StartFrame

\* speakers.py 422-424: set_volume(dev, int(max(0, min(1, volume)) * (max - min) + min))
StartSetVolume ==
    /\ pc = "start_vol"
    /\ LET d == devices[i]
           arg == StartVolume(volume, volume_range[d])
           call(ok) == [Call(d, "set_volume", "start", ok)
                           EXCEPT !.arg = arg, !.sent = ClampVolume(arg)]
       IN \/ /\ dev' = [dev EXCEPT ![d].vol = ClampVolume(arg)]
             /\ Issued(1, call(TRUE))
             /\ pc' = "start_uri"
             /\ UNCHANGED <<i, exc, devices_switched_uri, devices_done_playing, round,
                          done_rounds, own_switched, own_done>>
          \/ StartRaises(call(FALSE))
    /\ UNCHANGED url
    /\ StartFrame

\* speakers.py 425: set_uri(dev, url, meta=new_meta)
StartSetUri ==
    /\ pc = "start_uri"
    /\ LET d == devices[i]
           new_meta == didl_lite_meta(url, "Audio Clip", "audio/mpeg")
           call(ok) == [Call(d, "set_uri", "start", ok)
                           EXCEPT !.uri = url, !.meta = new_meta]
       IN \/ /\ dev' = [dev EXCEPT ![d].uri = url, ![d].meta = new_meta]
             /\ Issued(1, call(TRUE))
             /\ pc' = "start_play"
             /\ UNCHANGED <<i, exc, devices_switched_uri, devices_done_playing, round,
                          done_rounds, own_switched, own_done>>
          \/ StartRaises(call(FALSE))
    /\ UNCHANGED url
    /\ StartFrame

\* Mutant of StartPlay: a play that raises is passed over and the loop goes on
\* with the next device.
StartPlay_ContinuesOnError ==
    /\ pc = "start_play"
    /\ \/ /\ dev' = [dev EXCEPT ![devices[i]].status = "PLAYING"]
          /\ Issued(1, Call(devices[i], "play", "start", TRUE))
       \/ /\ Issued(1, Call(devices[i], "play", "start", FALSE))
          /\ UNCHANGED dev
    /\ pc' = "start_stop"
    /\ i' = i + 1
    /\ UNCHANGED <<exc, devices_switched_uri, devices_done_playing, round,
                   done_rounds, own_switched, own_done>>
    /\ UNCHANGED url
    /\ StartFrame

\* speakers.py 426: play(dev); the loop moves to the next device
StartPlay ==
    /\ pc = "start_play"
    /\ \/ /\ dev' = [dev EXCEPT ![devices[i]].status = "PLAYING"]
          /\ Issued(1, Call(devices[i], "play", "start", TRUE))
          /\ pc' = "start_stop"
          /\ i' = i + 1
          /\ UNCHANGED <<exc, devices_switched_uri, devices_done_playing, round,
                         done_rounds, own_switched, own_done>>
       \/ StartRaises(Call(devices[i], "play", "start", FALSE))
    /\ UNCHANGED url
    /\ StartFrame

\* speakers.py 429: the start loop is over; devices_switched_uri = [False] * len(devices)
StartEnd ==
    /\ pc = "start_stop"
    /\ i = N + 1
    /\ devices_switched_uri' = AllFalse(N)
    /\ round' = 0
    /\ i' = 1
    /\ pc' = "wait_start"
    /\ UNCHANGED <<dev, params, dev0, outside, devices, prev_states, url, devices_done_playing,
                   done_rounds, exc, result, now, t1, contacted, last, calls, restored,
                   faults, own_switched, own_done, t_done>>

\* ------------------------------------------------------------ polling
\* speakers.py 433: if state.uri == url
SwitchedTest(state, u) == state.uri = u

\* speakers.py 444-447: if state.uri != url or state.state not in ("PLAYING", "TRANSITIONING")
DoneTest(state, u) == state.uri # u \/ state.state \notin {"PLAYING", "TRANSITIONING"}

\* A get_transport_state poll that returned, and the URI it reported.
PollCall(d, phase, state) ==
    [Call(d, "get_transport_state", phase, TRUE) EXCEPT !.uri = state.uri]

\* The variables no polling step changes.
PollFrame ==
    UNCHANGED <<dev, params, dev0, outside, devices, prev_states, url, result, t1, restored>>

\* Mutant of PollRaises: the exception of a poll leaves the call without the
\* finally block being run.
PollRaises_NoFinally(phase) ==
    /\ exc' = Err(devices[i], "get_transport_state")
    /\ pc' = "restore_vol"
    /\ i' = N + 1
    /\ devices_switched_uri' = <<>>
    /\ devices_done_playing' = <<>>
    /\ round' = 0
    /\ done_rounds' = 0
    /\ own_switched' = {}
    /\ own_done' = {}
    /\ Issued(1, Call(devices[i], "get_transport_state", phase, FALSE))

\* get_transport_state raised while polling devices[i].
PollRaises(phase) ==
    /\ EnterFinally(Err(devices[i], "get_transport_state"))
    /\ Issued(1, Call(devices[i], "get_transport_state", phase, FALSE))

\* speakers.py 430-434: one device polled in one round of wait-for-start
WaitStartPoll ==
    /\ pc = "wait_start"
    /\ round < start_timeout_seconds
    /\ i <= N
    /\ \/ \E s \in ReportedStatuses, u \in ReportedUris :
            LET state == TransportStateOf(s, u, NoMeta) IN
            /\ devices_switched_uri' =
                  IF SwitchedTest(state, url)
                  THEN [devices_switched_uri EXCEPT ![i] = TRUE]
                  ELSE devices_switched_uri
            /\ own_switched' = IF state.uri = urls[devices[i]]
                               THEN own_switched \cup {i} ELSE own_switched
            /\ i' = i + 1
            /\ Issued(1, PollCall(devices[i], "wait_start", state))
            /\ UNCHANGED <<pc, exc, devices_done_playing, round, done_rounds,
                           own_done>>
       \/ PollRaises("wait_start")
    /\ UNCHANGED t_done
    /\ PollFrame

\* speakers.py 440: devices_done_playing = [False] * len(devices)
EnterWaitDone ==
    /\ pc' = "wait_done"
    /\ devices_done_playing' = AllFalse(N)
    /\ done_rounds' = 0
    /\ i' = 1
    /\ own_switched' = {}

\* speakers.py 435-437: the end of one round of wait-for-start
WaitStartCheck ==
    /\ pc = "wait_start"
    /\ round < start_timeout_seconds
    /\ i = N + 1
    /\ IF All(devices_switched_uri)
         THEN /\ EnterWaitDone
              /\ UNCHANGED <<round, now>>
         ELSE /\ now' = now + SleepSeconds
              /\ round' = round + 1
              /\ i' = 1
              /\ UNCHANGED <<pc, devices_done_playing, done_rounds, own_switched>>
    /\ UNCHANGED <<devices_switched_uri, exc, contacted, last, calls, faults, own_done,
                   t_done>>
    /\ PollFrame

\* Mutant of WaitStartTimeout: running out of rounds raises.
WaitStartTimeout_Raises ==
    /\ pc = "wait_start"
    /\ round >= start_timeout_seconds
    /\ EnterFinally(Err("", "TimeoutError"))
    /\ UNCHANGED <<now, contacted, last, calls, faults, t_done>>
    /\ PollFrame

\* speakers.py 430: range(start_timeout_seconds) is exhausted
WaitStartTimeout ==
    /\ pc = "wait_start"
    /\ round >= start_timeout_seconds
    /\ EnterWaitDone
    /\ UNCHANGED <<devices_switched_uri, round, exc, now, contacted, last, calls, faults,
                   own_done, t_done>>
    /\ PollFrame

\* speakers.py 442-448: one device polled in one round of wait-for-completion
WaitDonePoll ==
    /\ pc = "wait_done"
    /\ i <= N
    /\ \/ \E s \in ReportedStatuses, u \in ReportedUris :
            LET state == TransportStateOf(s, u, NoMeta) IN
            /\ devices_done_playing' =
                  IF DoneTest(state, url)
                  THEN [devices_done_playing EXCEPT ![i] = TRUE]
                  ELSE devices_done_playing
            /\ own_done' = IF DoneTest(state, urls[devices[i]])
                           THEN own_done \cup {i} ELSE own_done
            /\ i' = i + 1
            /\ Issued(1, PollCall(devices[i], "wait_done", state))
            /\ UNCHANGED <<pc, exc, devices_switched_uri, round, done_rounds,
                           own_switched>>
       \/ PollRaises("wait_done")
    /\ UNCHANGED t_done
    /\ PollFrame

\* speakers.py 449-452: the end of one round of wait-for-completion
WaitDoneCheck ==
    /\ pc = "wait_done"
    /\ i = N + 1
    /\ IF All(devices_done_playing)
         THEN /\ EnterFinally(NoExc)
              /\ t_done' = now
              /\ UNCHANGED now
         ELSE /\ done_rounds + 1 < MaxDoneRounds
              /\ now' = now + SleepSeconds
              /\ done_rounds' = done_rounds + 1
              /\ i' = 1
              /\ UNCHANGED <<pc, exc, devices_switched_uri, devices_done_playing,
                             round, own_switched, own_done, t_done>>
    /\ UNCHANGED <<contacted, last, calls, faults>>
    /\ PollFrame

\* ------------------------------------------------------------ restore phase
\* The variables no restore step changes.
RestoreFrame ==
    UNCHANGED <<params, dev0, outside, devices, prev_states, url, devices_switched_uri,
                devices_done_playing, round, done_rounds, result, t1,
                own_switched, own_done, t_done>>

\* Mutant of RestoreCaught: the exception of a restoration call is not caught;
\* it ends the restore loop and replaces the exception in flight.
RestoreCaught_Propagates(call) ==
    /\ pc' = "restore_vol"
    /\ i' = N + 1
    /\ exc' = Err(call.dev, call.op)
    /\ Issued(1, call)
    /\ UNCHANGED dev

\* speakers.py 466-467: except Exception: print(...); the loop moves on
RestoreCaught(call) ==
    /\ pc' = "restore_vol"
    /\ i' = i + 1
    /\ Issued(1, call)
    /\ UNCHANGED <<dev, exc>>

\* Mutant of RestoreSetVolume: a device snapshotted without a source URI is not
\* passed over after its volume is restored.
RestoreSetVolume_NoSkip ==
    /\ pc = "restore_vol"
    /\ i <= N
    /\ LET d == devices[i]
           prev_vol == prev_states[i].vol
           call(ok) == [Call(d, "set_volume", "restore", ok)
                           EXCEPT !.arg = prev_vol, !.sent = ClampVolume(prev_vol)]
       IN /\ restored' = Append(restored, <<d, prev_vol>>)
          /\ \/ /\ dev' = [dev EXCEPT ![d].vol = ClampVolume(prev_vol)]
                /\ Issued(1, call(TRUE))
                /\ pc' = "restore_uri" /\ i' = i
                /\ UNCHANGED exc
             \/ RestoreCaught(call(FALSE))
    /\ RestoreFrame

\* speakers.py 454-460: set_volume(dev, prev_vol); if not prev_state.uri: continue
RestoreSetVolume ==
    /\ pc = "restore_vol"
    /\ i <= N
    /\ LET d == devices[i]
           prev_vol == prev_states[i].vol
           prev_state == prev_states[i].state
           call(ok) == [Call(d, "set_volume", "restore", ok)
                           EXCEPT !.arg = prev_vol, !.sent = ClampVolume(prev_vol)]
       IN /\ restored' = Append(restored, <<d, prev_vol>>)
          /\ \/ /\ dev' = [dev EXCEPT ![d].vol = ClampVolume(prev_vol)]
                /\ Issued(1, call(TRUE))
                /\ IF prev_state.uri = NoUri
                     THEN pc' = "restore_vol" /\ i' = i + 1
                     ELSE pc' = "restore_uri" /\ i' = i
                /\ UNCHANGED exc
             \/ RestoreCaught(call(FALSE))
    /\ RestoreFrame

\* speakers.py 461: set_uri(dev, prev_state.uri, prev_state.meta)
RestoreSetUri ==
    /\ pc = "restore_uri"
    /\ LET d == devices[i]
           prev_state == prev_states[i].state
           call(ok) == [Call(d, "set_uri", "restore", ok)
                           EXCEPT !.uri = prev_state.uri, !.meta = prev_state.meta]
       IN \/ /\ dev' = [dev EXCEPT ![d].uri = prev_state.uri,
                                    ![d].meta = prev_state.meta]
             /\ Issued(1, call(TRUE))
             /\ pc' = "restore_play"
             /\ UNCHANGED <<i, exc>>
          \/ RestoreCaught(call(FALSE))
    /\ UNCHANGED restored
    /\ RestoreFrame

\* speakers.py 462-465: play(dev) if prev_state.playing else stop(dev)
RestorePlayOrStop ==
    /\ pc = "restore_play"
    /\ LET d == devices[i]
           op == IF playing(prev_states[i].state) THEN "play" ELSE "stop"
       IN \/ /\ dev' = [dev EXCEPT ![d].status =
                            IF op = "play" THEN "PLAYING" ELSE "STOPPED"]
             /\ Issued(1, Call(d, op, "restore", TRUE))
             /\ pc' = "restore_vol"
             /\ i' = i + 1
             /\ UNCHANGED exc
          \/ RestoreCaught(Call(d, op, "restore", FALSE))
    /\ UNCHANGED restored
    /\ RestoreFrame

\* speakers.py 468: the finally block is over: the exception in flight
\* propagates, or return time.time() - t1
Return ==
    /\ pc = "restore_vol"
    /\ i = N + 1
    /\ pc' = "done"
    /\ result' = IF exc # NoExc
                 THEN [kind |-> "raised", err |-> exc, value |-> 0]
                 ELSE [kind |-> "returned", err |-> NoExc, value |-> now - t1]
    /\ UNCHANGED <<dev, params, dev0, outside, devices, prev_states, i, url, devices_switched_uri,
                   devices_done_playing, round, done_rounds, exc, now, t1, contacted,
                   last, calls, restored, faults, own_switched, own_done, t_done>>

\* ------------------------------------------------------------ specification
Next ==
    \/ PlayAudio
    \/ Validate
    \/ Snapshot
    \/ SnapshotEnd
    \/ StartStop
    \/ StartSetVolume
    \/ StartSetUri
    \/ StartPlay
    \/ StartEnd
    \/ WaitStartPoll
    \/ WaitStartCheck
    \/ WaitStartTimeout
    \/ WaitDonePoll
    \/ WaitDoneCheck
    \/ RestoreSetVolume
    \/ RestoreSetUri
    \/ RestorePlayOrStop
    \/ Return

Spec == Init /\ [][Next]_vars

\* ================================================= controller construction
\* ssdp_discover (speakers.py 37-78), load_device_info (166-206),
\* get_volume_range (136-163) and SonosController.__init__ (342-352).  A
\* discovery response is the sequence of its header lines after the status
\* line, each <<text before the first ":", text after it>>.

MaxResponses == 3       \* discovery responses on the wire

ConstructorMaxResults == 25     \* ssdp_discover(timeout=2.5, max_results=25)

\* The play request is not running.
PlayIdle ==
    /\ dev = NominalDev
    /\ dev0 = dev
    /\ entry = "play_url_per_device"
    /\ device_ids = NoneIds
    /\ urls = NominalUrls
    /\ volume = FracDen - 1
    /\ start_timeout_seconds = MaxStartTimeout
    /\ pc = "idle"
    /\ Idle

\* The variables of the one play request of Spec, the devices apart.
play_locals == <<entry, device_ids, urls, volume, start_timeout_seconds, pc,
                 devices, prev_states, i, url, devices_switched_uri,
                 devices_done_playing, round, done_rounds, exc, result, now, t1,
                 contacted, last, restored, faults, own_switched, own_done, t_done,
                 calls>>

play_vars == <<dev, dev0, play_locals>>

\* k.strip().upper() on the header names explored.
HeaderKey(k) ==
    CASE k = "Location"  -> "LOCATION"
      [] k = "location " -> "LOCATION"
      [] k = "usn"       -> "USN"
      [] OTHER           -> k

\* v.strip() on the header values explored.
HeaderValue(v) ==
    CASE v = " locA" -> "locA"
      [] v = " locB" -> "locB"
      [] v = " "     -> ""
      [] OTHER       -> v

\* speakers.py 66-70: the headers dict; a later line replaces an earlier one
\* with the same key.
Headers(lines) ==
    LET keys == {HeaderKey(lines[j][1]) : j \in 1..Len(lines)}
        lastOf(k) == CHOOSE j \in 1..Len(lines) :
                        /\ HeaderKey(lines[j][1]) = k
                        /\ \A j2 \in (j + 1)..Len(lines) : HeaderKey(lines[j2][1]) # k
    IN [k \in keys |-> HeaderValue(lines[lastOf(k)][2])]

\* headers.get(key): None is kept as "", the code testing only its truth.
Get(headers, key) == IF key \in DOMAIN headers THEN headers[key] ELSE ""

\* The responses explored: two of location locA that differ in spelling and
\* USN, one of locB, one without a LOCATION line, one with an empty LOCATION,
\* one with two LOCATION lines.
ResponseKinds ==
    { << <<"LOCATION", " locA">>, <<"USN", " u1">> >>,
      << <<"Location", "locA">>, <<"USN", " u2">> >>,
      << <<"LOCATION", " locB">>, <<"USN", " u3">> >>,
      << <<"USN", " u4">>, <<"ST", " renderer">> >>,
      << <<"LOCATION", " ">>, <<"USN", " u5">> >>,
      << <<"LOCATION", " locA">>, <<"location ", " locB">> >> }

MaxResultsChoices == (1..(MaxResponses - 1)) \cup {ConstructorMaxResults}

InitDiscovery ==
    /\ dpc = "recv"
    /\ wire \in UNION {[1..n -> ResponseKinds] : n \in 0..MaxResponses}
    /\ max_results \in MaxResultsChoices
    /\ results = <<>>
    /\ seen_locations = {}
    /\ received = <<>>
    /\ h = 1
    /\ self_devices = <<>>
    /\ loads = <<>>
    /\ PlayIdle
    /\ ThreadsIdle

\* Mutant of Recv: a location already seen is appended again.
Recv_NoDedupe ==
    /\ dpc = "recv"
    /\ Len(results) < max_results
    /\ wire # <<>>
    /\ LET headers == Headers(Head(wire))
           loc == Get(headers, "LOCATION")
       IN IF loc # ""
          THEN /\ seen_locations' = seen_locations \cup {loc}
               /\ results' = Append(results, headers)
          ELSE UNCHANGED <<seen_locations, results>>
    /\ wire' = Tail(wire)
    /\ received' = Append(received, Head(wire))
    /\ UNCHANGED <<dpc, max_results, h, self_devices, loads, play_vars, thread_vars>>

\* speakers.py 59-75: one iteration of the receive loop in which recvfrom returns
Recv ==
    /\ dpc = "recv"
    /\ Len(results) < max_results
    /\ wire # <<>>
    /\ LET headers == Headers(Head(wire))
           loc == Get(headers, "LOCATION")
       IN IF loc # "" /\ loc \notin seen_locations
          THEN /\ seen_locations' = seen_locations \cup {loc}
               /\ results' = Append(results, headers)
          ELSE UNCHANGED <<seen_locations, results>>
    /\ wire' = Tail(wire)
    /\ received' = Append(received, Head(wire))
    /\ UNCHANGED <<dpc, max_results, h, self_devices, loads, play_vars, thread_vars>>

\* speakers.py 59, 62-63, 77-78: the loop ends, the time being over,
\* max_results entries collected or recvfrom timing out; sock.close() drops what
\* was not received; return results
DiscoverReturn ==
    /\ dpc = "recv"
    /\ dpc' = "returned"
    /\ wire' = <<>>
    /\ UNCHANGED <<max_results, results, seen_locations, received, h, self_devices,
                   loads, play_vars, thread_vars>>

\* speakers.py 343-346: responses = ssdp_discover(timeout=2.5, max_results=25);
\* the loop over responses begins.  The locals of ssdp_discover are gone.
InitBegin ==
    /\ dpc = "returned"
    /\ max_results = ConstructorMaxResults
    /\ dpc' = "load"
    /\ h' = 1
    /\ seen_locations' = {}
    /\ received' = <<>>
    /\ UNCHANGED <<wire, max_results, results, self_devices, loads, play_vars, thread_vars>>

\* ------------------------------------------------------- load_device_info
AVTransport1 == "urn:schemas-upnp-org:service:AVTransport:1"

AVTransport2 == "urn:schemas-upnp-org:service:AVTransport:2"

RenderingControl1 == "urn:schemas-upnp-org:service:RenderingControl:1"

ConnectionManager1 == "urn:schemas-upnp-org:service:ConnectionManager:1"

\* The service types st with st.startswith("urn:schemas-upnp-org:service:AVTransport:")
AVTransportTypes == {AVTransport1, AVTransport2}

\* Those with st.startswith("urn:schemas-upnp-org:service:RenderingControl:")
RenderingControlTypes == {RenderingControl1}

\* A fetched and parsed description: friendlyName and MACAddress ("" when the
\* element is missing) and the serviceList entries (serviceType, controlURL).
Descriptions ==
    { [friendly |-> "Kitchen", mac |-> "m1",
       services |-> << [st |-> AVTransport1, control |-> "/avt"],
                       [st |-> RenderingControl1, control |-> "/rc"] >>],
      [friendly |-> "", mac |-> "m1",
       services |-> << [st |-> ConnectionManager1, control |-> "/cm"],
                       [st |-> RenderingControl1, control |-> "/rc"],
                       [st |-> AVTransport2, control |-> "/avt2"] >>],
      [friendly |-> "Den", mac |-> "",
       services |-> << [st |-> AVTransport1, control |-> "/avt"],
                       [st |-> RenderingControl1, control |-> "/rc"] >>],
      [friendly |-> "TV", mac |-> "m2",
       services |-> << [st |-> RenderingControl1, control |-> "/rc"],
                       [st |-> ConnectionManager1, control |-> "/cm"] >>],
      [friendly |-> "Amp", mac |-> "m3",
       services |-> << [st |-> AVTransport1, control |-> "/avt"],
                       [st |-> RenderingControl1, control |-> ""] >>],
      [friendly |-> "Hub", mac |-> "m4", services |-> <<>>] }

NoDescription == [friendly |-> "", mac |-> "", services |-> <<>>]

\* None as a control URL.
NoControlUrl == <<>>

\* urljoin(base, control), base being the origin of location
urljoin(location, control) == <<location, control>>

\* speakers.py 179-190: the control URL of the last service entry whose type
\* is among `types` and that has a type and a control URL; None without one.
ControlUrl(location, services, types) ==
    LET hits == {j \in 1..Len(services) :
                    /\ services[j].st # "" /\ services[j].control # ""
                    /\ services[j].st \in types}
    IN IF hits = {} THEN NoControlUrl
       ELSE urljoin(location,
                    services[CHOOSE j \in hits : \A j2 \in hits : j2 <= j].control)

\* Mutant of NotControllable: a device is given up only when both services miss.
NotControllable_Both(av_transport_url, rendering_url) ==
    av_transport_url = NoControlUrl /\ rendering_url = NoControlUrl

\* speakers.py 192: if not av_transport_url or not rendering_url
NotControllable(av_transport_url, rendering_url) ==
    av_transport_url = NoControlUrl \/ rendering_url = NoControlUrl

DefaultVolumeRange == <<0, 100>>

\* What the device answers to GetVolumeRange.
VolumeRangeReplies ==
    { [kind |-> "values", range |-> <<0, 10>>],
      [kind |-> "no_values", range |-> <<0, 0>>],
      [kind |-> "fault_401", range |-> <<0, 0>>],
      [kind |-> "fault", range |-> <<0, 0>>] }

\* speakers.py 143-163: the range of a reply that does not raise
get_volume_range(reply) ==
    IF reply.kind = "values" THEN reply.range ELSE DefaultVolumeRange

\* local_ip_as_seen_by_device(location)
local_ip_as_seen_by_device(location) ==
    IF location = "locA" THEN "10.0.0.2" ELSE "10.0.1.2"

\* The entry of `loads` for one load_device_info call: the location, the
\* description fetched, how the call ended and the control actions it issued.
Load(location, description, returned, soap) ==
    [location |-> location, description |-> description, returned |-> returned,
     soap |-> soap]

\* speakers.py 346-352 with load_device_info (166-206): one iteration of the
\* loop over responses
LoadDeviceInfo ==
    /\ dpc = "load"
    /\ h <= Len(results)
    /\ LET loc == Get(results[h], "LOCATION") IN
       IF loc = ""
       THEN /\ h' = h + 1
            /\ UNCHANGED <<dpc, self_devices, loads>>
       ELSE
       \/ \* requests.get or raise_for_status raises, or the XML does not parse
          /\ dpc' = "failed"
          /\ loads' = Append(loads, Load(loc, NoDescription, "raised", <<>>))
          /\ UNCHANGED <<h, self_devices>>
       \/ \E xml \in Descriptions :
            LET friendly_name == IF xml.friendly # "" THEN xml.friendly ELSE loc
                mac_addr == xml.mac
                av_transport_url == ControlUrl(loc, xml.services, AVTransportTypes)
                rendering_url == ControlUrl(loc, xml.services, RenderingControlTypes)
            IN IF NotControllable(av_transport_url, rendering_url)
               THEN /\ loads' = Append(loads, Load(loc, xml, "None", <<>>))
                    /\ h' = h + 1
                    /\ UNCHANGED <<dpc, self_devices>>
               ELSE \E reply \in VolumeRangeReplies :
                      IF reply.kind = "fault"
                      THEN /\ dpc' = "failed"
                           /\ loads' = Append(loads,
                                 Load(loc, xml, "raised", <<"GetVolumeRange">>))
                           /\ UNCHANGED <<h, self_devices>>
                      ELSE /\ self_devices' = Append(self_devices,
                                 [id |-> mac_addr,
                                  mac_addr |-> mac_addr,
                                  location |-> loc,
                                  friendly_name |-> friendly_name,
                                  av_transport_control_url |-> av_transport_url,
                                  rendering_control_url |-> rendering_url,
                                  volume_range |-> get_volume_range(reply),
                                  host_ip |-> local_ip_as_seen_by_device(loc)])
                           /\ loads' = Append(loads,
                                 Load(loc, xml, "Device", <<"GetVolumeRange">>))
                           /\ h' = h + 1
                           /\ UNCHANGED dpc
    /\ UNCHANGED <<wire, max_results, results, seen_locations, received, play_vars, thread_vars>>

\* speakers.py 346-352: the loop over responses is over
Constructed ==
    /\ dpc = "load"
    /\ h > Len(results)
    /\ dpc' = "constructed"
    /\ UNCHANGED <<wire, max_results, results, seen_locations, received, h,
                   self_devices, loads, play_vars, thread_vars>>

NextDiscovery ==
    \/ Recv
    \/ DiscoverReturn
    \/ InitBegin
    \/ LoadDeviceInfo
    \/ Constructed

SpecDiscovery == InitDiscovery /\ [][NextDiscovery]_vars

\* ====================================================== concurrent requests
\* Requests run by threads that share the devices: play_url_per_device called
\* by two callers at once (SpecConcurrent) and the /play and /play_bytes
\* handlers of server.py (SpecServer). A thread's record holds the locals of
\* the request it runs; a poll reads what the device is doing at that moment.

DefaultStartTimeout == 5    \* start_timeout_seconds: int = 5

NoException == ""

\* Device.host_ip of each inventory device.
host_ip ==
    [d \in DeviceSet |-> IF d = "d3" THEN "10.0.1.2" ELSE "10.0.0.2"]

\* hashlib.sha1(body).hexdigest()
sha1(body) ==
    CASE body = "bytesA" -> "hashA"
      [] body = "bytesB" -> "hashB"
      [] OTHER           -> "hash0"

\* f"http://{d.host_ip}:{local_port}{local_path}", with
\* local_path = f"/play_bytes_audio?hash={current_audio_hash}" and port 5000
HostedUrl(ip, hash) ==
    CASE ip = "10.0.0.2" /\ hash = "hashA" ->
            "http://10.0.0.2:5000/play_bytes_audio?hash=hashA"
      [] ip = "10.0.0.2" /\ hash = "hashB" ->
            "http://10.0.0.2:5000/play_bytes_audio?hash=hashB"
      [] ip = "10.0.1.2" /\ hash = "hashA" ->
            "http://10.0.1.2:5000/play_bytes_audio?hash=hashA"
      [] ip = "10.0.1.2" /\ hash = "hashB" ->
            "http://10.0.1.2:5000/play_bytes_audio?hash=hashB"
      [] OTHER -> "http://host:5000/play_bytes_audio?hash=hash0"

\* _coerce_float(v, field="volume"), as a multiple of 1 / FracDen; a text that
\* is no number, or a missing argument, raises ValueError.
CoerceFloat(v) ==
    CASE v = "1" -> [ok |-> TRUE, n |-> FracDen]
      [] v = "0" -> [ok |-> TRUE, n |-> 0]
      [] v = "2" -> [ok |-> TRUE, n |-> 2 * FracDen]
      [] OTHER   -> [ok |-> FALSE, n |-> 0]

\* request.args.get("device_ids"): None, or dev_ids_str.split(",")
NoArg == "None"

SplitIds(dev_ids_str) ==
    CASE dev_ids_str = NoArg   -> NoneIds
      [] dev_ids_str = "d1"    -> [given |-> TRUE, ids |-> {"d1"}]
      [] dev_ids_str = "d1,d2" -> [given |-> TRUE, ids |-> {"d1", "d2"}]
      [] dev_ids_str = "d1,d3" -> [given |-> TRUE, ids |-> {"d1", "d3"}]
      [] OTHER                 -> [given |-> TRUE, ids |-> {dev_ids_str}]

\* The devices a selector keeps, in inventory order.
SelectedDevices(ids) ==
    IF ids.given THEN SelectSeq(DeviceIds, LAMBDA x : x \in ids.ids) ELSE DeviceIds

NoState == [state |-> "", uri |-> NoUri, meta |-> NoMeta]

\* The locals of a request that has not run yet. `fault` names the phase
\* whose first control action raises during this request ("none": no call
\* of the request fails).
NewThread(handler, args, fault) ==
    [handler |-> handler,
     pc |-> IF handler = "direct" THEN "validate" ELSE "parse",
     args |-> args,
     fault |-> fault,
     fired |-> FALSE,
     urls |-> IF handler = "direct" THEN args.urls ELSE NoUrls,
     volume |-> IF handler = "direct" THEN args.volume ELSE 0,
     start_timeout_seconds |->
        IF handler = "direct" THEN args.start_timeout_seconds
                              ELSE DefaultStartTimeout,
     dev_ids |-> NoneIds,
     devices |-> <<>>,
     prev_states |-> <<>>,
     i |-> 1,
     url |-> NoUri,
     transport_state |-> "",
     state |-> NoState,
     devices_switched_uri |-> <<>>,
     devices_done_playing |-> <<>>,
     round |-> 0,
     exc |-> NoException,
     status_code |-> 0]

Count(self) == Len(self.devices)

\* The first control action of the named phase raises.
Raises(self, phase) == self.fault = phase /\ ~self.fired

\* play_url_per_device is left: by return or with the exception e in flight.
Leaves(self, e) ==
    [self EXCEPT !.pc = IF self.handler = "direct" THEN "done" ELSE "release",
                 !.exc = e]

\* The try block is left for the finally block.
Finally(self, e) == [self EXCEPT !.pc = "restore_vol", !.i = 1, !.exc = e, !.fired = TRUE]

thread_frame == UNCHANGED <<play_locals, dev0, discovery_vars>>

server_frame ==
    UNCHANGED <<play_lock, current_mime_type, current_audio_bytes, current_audio_hash>>

\* speakers.py 405-407
ThreadValidate(t) ==
    LET self == threads[t]
    IN /\ self.pc = "validate"
       /\ threads' = [threads EXCEPT ![t] =
            IF VolumeRejected(self.volume)
              THEN Leaves(self, "ValueError")
              ELSE [self EXCEPT
                      !.devices = SelectSeq(DeviceIds, LAMBDA x : x \in DOMAIN self.urls),
                      !.pc = "snap_info", !.i = 1]]
       /\ UNCHANGED dev
       /\ server_frame
       /\ thread_frame

\* speakers.py 255-261: get_transport_state's GetTransportInfo action, as the
\* snapshot loop (411), the switch poll (433) and the completion poll (444)
\* issue it
GetTransportInfo(t) ==
    LET self == threads[t]
        phase == IF self.pc = "snap_info" THEN "snapshot" ELSE "poll"
    IN /\ self.pc \in {"snap_info", "switch_info", "done_info"}
       /\ self.i <= Count(self)
       /\ self.pc = "switch_info" => self.round < self.start_timeout_seconds
       /\ threads' = [threads EXCEPT ![t] =
            IF Raises(self, phase)
              THEN IF phase = "snapshot"
                     THEN Leaves([self EXCEPT !.fired = TRUE], "Exception")
                     ELSE Finally(self, "Exception")
              ELSE [self EXCEPT
                      !.transport_state = dev[self.devices[self.i]].status,
                      !.pc = CASE self.pc = "snap_info"   -> "snap_media"
                               [] self.pc = "switch_info" -> "switch_media"
                               [] OTHER                   -> "done_media"]]
       /\ UNCHANGED dev
       /\ server_frame
       /\ thread_frame

\* speakers.py 263-271: get_transport_state's GetMediaInfo action and the
\* TransportState it returns, with what lines 411, 434-435 and 445-449 do
\* with it
GetMediaInfo(t) ==
    LET self == threads[t]
        d == self.devices[self.i]
        state == TransportStateOf(self.transport_state, dev[d].uri, dev[d].meta)
    IN /\ self.pc \in {"snap_media", "switch_media", "done_media"}
       /\ threads' = [threads EXCEPT ![t] =
            CASE self.pc = "snap_media" ->
                    [self EXCEPT !.state = state, !.pc = "snap_vol"]
              [] self.pc = "switch_media" ->
                    [self EXCEPT
                       !.devices_switched_uri[self.i] = @ \/ SwitchedTest(state, self.url),
                       !.i = @ + 1, !.pc = "switch_info"]
              [] OTHER ->
                    [self EXCEPT
                       !.devices_done_playing[self.i] = @ \/ DoneTest(state, self.url),
                       !.i = @ + 1, !.pc = "done_info"]]
       /\ UNCHANGED dev
       /\ server_frame
       /\ thread_frame

\* speakers.py 412-413: vol = get_volume(d); prev_states.append(...)
GetVolume(t) ==
    LET self == threads[t]
        d == self.devices[self.i]
    IN /\ self.pc = "snap_vol"
       /\ threads' = [threads EXCEPT ![t] =
            [self EXCEPT
               !.prev_states = Append(@, [state |-> self.state, vol |-> dev[d].vol]),
               !.state = NoState, !.transport_state = "",
               !.i = @ + 1, !.pc = "snap_info"]]
       /\ UNCHANGED dev
       /\ server_frame
       /\ thread_frame

\* speakers.py 410, 415-417: the snapshot loop is over, the try block begins
ThreadSnapshotEnd(t) ==
    LET self == threads[t]
    IN /\ self.pc = "snap_info"
       /\ self.i = Count(self) + 1
       /\ threads' = [threads EXCEPT ![t] = [self EXCEPT !.pc = "start_stop", !.i = 1]]
       /\ UNCHANGED dev
       /\ server_frame
       /\ thread_frame

\* speakers.py 417-426: the next control action of the start loop
ThreadStart(t) ==
    LET self == threads[t]
        d == self.devices[self.i]
        u == self.urls[d]
        arg == StartVolume(self.volume, volume_range[d])
    IN /\ self.pc \in {"start_stop", "start_vol", "start_uri", "start_play"}
       /\ self.i <= Count(self)
       /\ IF Raises(self, "start")
            THEN /\ threads' = [threads EXCEPT ![t] = Finally(self, "Exception")]
                 /\ UNCHANGED dev
            ELSE CASE self.pc = "start_stop" ->
                        /\ dev' = [dev EXCEPT ![d].status = "STOPPED"]
                        /\ threads' = [threads EXCEPT ![t] =
                              [self EXCEPT !.url = u, !.pc = "start_vol"]]
                   [] self.pc = "start_vol" ->
                        /\ dev' = [dev EXCEPT ![d].vol = ClampVolume(arg)]
                        /\ threads' = [threads EXCEPT ![t].pc = "start_uri"]
                   [] self.pc = "start_uri" ->
                        /\ dev' = [dev EXCEPT
                              ![d].uri = self.url,
                              ![d].meta = didl_lite_meta(self.url, "Audio Clip",
                                                         "audio/mpeg")]
                        /\ threads' = [threads EXCEPT ![t].pc = "start_play"]
                   [] OTHER ->
                        /\ dev' = [dev EXCEPT ![d].status = "PLAYING"]
                        /\ threads' = [threads EXCEPT ![t] =
                              [self EXCEPT !.i = @ + 1, !.pc = "start_stop"]]
       /\ server_frame
       /\ thread_frame

\* speakers.py 428-430: devices_switched_uri = [False] * len(devices)
ThreadStartEnd(t) ==
    LET self == threads[t]
    IN /\ self.pc = "start_stop"
       /\ self.i = Count(self) + 1
       /\ threads' = [threads EXCEPT ![t] =
            [self EXCEPT !.devices_switched_uri = AllFalse(Count(self)),
                         !.round = 0, !.i = 1, !.pc = "switch_info"]]
       /\ UNCHANGED dev
       /\ server_frame
       /\ thread_frame

\* speakers.py 439-441: devices_done_playing = [False] * len(devices)
WaitsForCompletion(self) ==
    [self EXCEPT !.devices_done_playing = AllFalse(Count(self)),
                 !.i = 1, !.pc = "done_info"]

\* speakers.py 435-437: if all(devices_switched_uri): break; time.sleep(1)
ThreadSwitchCheck(t) ==
    LET self == threads[t]
    IN /\ self.pc = "switch_info"
       /\ self.round < self.start_timeout_seconds
       /\ self.i = Count(self) + 1
       /\ threads' = [threads EXCEPT ![t] =
            IF All(self.devices_switched_uri)
              THEN WaitsForCompletion(self)
              ELSE [self EXCEPT !.round = @ + 1, !.i = 1]]
       /\ UNCHANGED dev
       /\ server_frame
       /\ thread_frame

\* speakers.py 431: range(start_timeout_seconds) is exhausted
ThreadSwitchTimeout(t) ==
    LET self == threads[t]
    IN /\ self.pc = "switch_info"
       /\ self.round >= self.start_timeout_seconds
       /\ threads' = [threads EXCEPT ![t] = WaitsForCompletion(self)]
       /\ UNCHANGED dev
       /\ server_frame
       /\ thread_frame

\* speakers.py 449-451: if all(devices_done_playing): break; time.sleep(1)
ThreadDoneCheck(t) ==
    LET self == threads[t]
    IN /\ self.pc = "done_info"
       /\ self.i = Count(self) + 1
       /\ threads' = [threads EXCEPT ![t] =
            IF All(self.devices_done_playing)
              THEN [self EXCEPT !.pc = "restore_vol", !.i = 1]
              ELSE [self EXCEPT !.i = 1]]
       /\ UNCHANGED dev
       /\ server_frame
       /\ thread_frame

\* Mutant of RestoreOp: the device is stopped whatever it was doing before.
RestoreOp_AlwaysStop(prev_state) == "stop"

\* speakers.py 462-465: play(dev) if prev_state.playing else stop(dev)
RestoreOp(prev_state) == IF playing(prev_state) THEN "play" ELSE "stop"

\* speakers.py 454-467: the next control action of the restore loop; one that
\* raises is caught and the loop goes on with the next device
ThreadRestore(t) ==
    LET self == threads[t]
        d == self.devices[self.i]
        prev_state == self.prev_states[self.i].state
        prev_vol == self.prev_states[self.i].vol
    IN /\ self.pc \in {"restore_vol", "restore_uri", "restore_play"}
       /\ self.i <= Count(self)
       /\ IF Raises(self, "restore")
            THEN /\ threads' = [threads EXCEPT ![t] =
                      [self EXCEPT !.fired = TRUE, !.i = @ + 1, !.pc = "restore_vol"]]
                 /\ UNCHANGED dev
            ELSE CASE self.pc = "restore_vol" ->
                        /\ dev' = [dev EXCEPT ![d].vol = ClampVolume(prev_vol)]
                        /\ threads' = [threads EXCEPT ![t] =
                              IF prev_state.uri = NoUri
                                THEN [self EXCEPT !.i = @ + 1]
                                ELSE [self EXCEPT !.pc = "restore_uri"]]
                   [] self.pc = "restore_uri" ->
                        /\ dev' = [dev EXCEPT ![d].uri = prev_state.uri,
                                              ![d].meta = prev_state.meta]
                        /\ threads' = [threads EXCEPT ![t].pc = "restore_play"]
                   [] OTHER ->
                        /\ dev' = [dev EXCEPT ![d].status =
                              IF RestoreOp(prev_state) = "play" THEN "PLAYING"
                                                                ELSE "STOPPED"]
                        /\ threads' = [threads EXCEPT ![t] =
                              [self EXCEPT !.i = @ + 1, !.pc = "restore_vol"]]
       /\ server_frame
       /\ thread_frame

\* speakers.py 468: the finally block is over: the exception in flight
\* propagates, or the elapsed time is returned
ThreadReturn(t) ==
    LET self == threads[t]
    IN /\ self.pc = "restore_vol"
       /\ self.i = Count(self) + 1
       /\ threads' = [threads EXCEPT ![t] = Leaves(self, self.exc)]
       /\ UNCHANGED dev
       /\ server_frame
       /\ thread_frame

\* A clip is over: the device that was playing it stops by itself.
ClipEnds(d) ==
    /\ dev[d].status = "PLAYING"
    /\ dev[d].uri # "radio"
    /\ dev' = [dev EXCEPT ![d].status = "STOPPED"]
    /\ UNCHANGED threads
    /\ server_frame
    /\ thread_frame

\* The steps of play_url_per_device a thread takes.
Orchestrates(t) ==
    \/ ThreadValidate(t)
    \/ GetTransportInfo(t)
    \/ GetMediaInfo(t)
    \/ GetVolume(t)
    \/ ThreadSnapshotEnd(t)
    \/ ThreadStart(t)
    \/ ThreadStartEnd(t)
    \/ ThreadSwitchCheck(t)
    \/ ThreadSwitchTimeout(t)
    \/ ThreadDoneCheck(t)
    \/ ThreadRestore(t)
    \/ ThreadReturn(t)

\* ------------------------------------------ two callers, no serialisation
Callers == {"a", "b"}

\* What the two callers ask for: both target d1; the first may target d2 too.
CallerUrls ==
    [a : [{"d1"} -> ClipUrls] \cup [{"d1", "d2"} -> {"clipA"}],
     b : [{"d1"} -> ClipUrls]]

InitConcurrent ==
    /\ \E u \in CallerUrls :
         threads = [t \in Callers |->
            NewThread("direct",
                      [urls |-> u[t], volume |-> FracDen - 1,
                       start_timeout_seconds |-> MaxStartTimeout - 1],
                      "none")]
    /\ play_lock = NoThread
    /\ current_mime_type = NoCurrent
    /\ current_audio_bytes = NoCurrent
    /\ current_audio_hash = NoCurrent
    /\ PlayIdle
    /\ DiscoveryIdle

NextConcurrent ==
    \/ \E t \in Callers : Orchestrates(t)
    \/ \E d \in DeviceSet : ClipEnds(d)

SpecConcurrent == InitConcurrent /\ [][NextConcurrent]_vars

\* ------------------------------------------------- the handlers of server.py
ServerThreads == {"t1", "t2", "t3"}

\* A /play request that is served without incident.
PlainPlay ==
    [handler |-> "play", fault |-> "none",
     args |-> [url |-> "clipA", volume |-> "1", device_ids |-> "d1"]]

\* The /play requests explored.
PlayRequests ==
    { PlainPlay,
      [handler |-> "play", fault |-> "none",
       args |-> [url |-> "", volume |-> "1", device_ids |-> NoArg]],
      [handler |-> "play", fault |-> "none",
       args |-> [url |-> "clipB", volume |-> "2", device_ids |-> "d1"]],
      [handler |-> "play", fault |-> "snapshot",
       args |-> [url |-> "clipB", volume |-> "1", device_ids |-> "d1,d2"]],
      [handler |-> "play", fault |-> "start",
       args |-> [url |-> "clipA", volume |-> "0", device_ids |-> "d1"]] }

\* The /play_bytes requests explored.
PlayBytesRequests ==
    { [handler |-> "play_bytes", fault |-> "none",
       args |-> [body |-> "bytesA", mime |-> "audio/mpeg", volume |-> "1",
                 device_ids |-> "d1,d3"]],
      [handler |-> "play_bytes", fault |-> "none",
       args |-> [body |-> "bytesB", mime |-> "audio/wav", volume |-> "abc",
                 device_ids |-> "d1"]],
      [handler |-> "play_bytes", fault |-> "none",
       args |-> [body |-> "", mime |-> "audio/wav", volume |-> "1",
                 device_ids |-> "d1"]],
      [handler |-> "play_bytes", fault |-> "poll",
       args |-> [body |-> "bytesB", mime |-> "audio/wav", volume |-> "1",
                 device_ids |-> "d1"]],
      [handler |-> "play_bytes", fault |-> "restore",
       args |-> [body |-> "bytesB", mime |-> "audio/wav", volume |-> "1",
                 device_ids |-> "d2"]] }

ServerRequests == PlayRequests \cup PlayBytesRequests

\* The requests in flight: two of any kind and a plain /play.
InitServer ==
    /\ \E r \in [ServerThreads -> ServerRequests] :
         /\ r["t3"] = PlainPlay
         /\ threads = [t \in ServerThreads |->
                          NewThread(r[t].handler, r[t].args, r[t].fault)]
    /\ play_lock = NoThread
    /\ current_mime_type = NoCurrent
    /\ current_audio_bytes = NoCurrent
    /\ current_audio_hash = NoCurrent
    /\ PlayIdle
    /\ DiscoveryIdle

\* server.py 48-60 and 100-113: the arguments are read before the lock is
\* asked for; a missing url or body, or a volume that is no number, raises
\* ValueError
Parse(t) ==
    LET self == threads[t]
        given == IF self.handler = "play" THEN self.args.url # ""
                                          ELSE self.args.body # ""
        volume_arg == CoerceFloat(self.args.volume)
    IN /\ self.pc = "parse"
       /\ threads' = [threads EXCEPT ![t] =
            IF given /\ volume_arg.ok
              THEN [self EXCEPT !.volume = volume_arg.n,
                                !.dev_ids = SplitIds(self.args.device_ids),
                                !.pc = "acquire"]
              ELSE [self EXCEPT !.exc = "ValueError", !.pc = "respond"]]
       /\ UNCHANGED dev
       /\ server_frame
       /\ thread_frame

\* server.py 61 and 114: with play_lock, entered when the lock is free
Acquire(t) ==
    LET self == threads[t]
    IN /\ self.pc = "acquire"
       /\ play_lock = NoThread
       /\ play_lock' = t
       /\ threads' = [threads EXCEPT ![t].pc =
            IF self.handler = "play" THEN "play_audio" ELSE "set_mime"]
       /\ UNCHANGED <<dev, current_mime_type, current_audio_bytes, current_audio_hash>>
       /\ thread_frame

\* server.py 115-117: the three assignments, one at a time
SetCurrent(t) ==
    LET self == threads[t]
    IN /\ self.pc \in {"set_mime", "set_bytes", "set_hash"}
       /\ CASE self.pc = "set_mime" ->
                 /\ current_mime_type' = self.args.mime
                 /\ threads' = [threads EXCEPT ![t].pc = "set_bytes"]
                 /\ UNCHANGED <<current_audio_bytes, current_audio_hash>>
            [] self.pc = "set_bytes" ->
                 /\ current_audio_bytes' = self.args.body
                 /\ threads' = [threads EXCEPT ![t].pc = "set_hash"]
                 /\ UNCHANGED <<current_mime_type, current_audio_hash>>
            [] OTHER ->
                 /\ current_audio_hash' = sha1(self.args.body)
                 /\ threads' = [threads EXCEPT ![t].pc = "play_hosted_audio"]
                 /\ UNCHANGED <<current_mime_type, current_audio_bytes>>
       /\ UNCHANGED <<dev, play_lock>>
       /\ thread_frame

\* server.py 62-64 with speakers.py 363-372: play_audio builds urls and calls
\* play_url_per_device
ControllerPlayAudio(t) ==
    LET self == threads[t]
        selected == SelectedDevices(self.dev_ids)
    IN /\ self.pc = "play_audio"
       /\ threads' = [threads EXCEPT ![t] =
            [self EXCEPT
               !.urls = [d \in {selected[k] : k \in 1..Len(selected)} |-> self.args.url],
               !.pc = "validate"]]
       /\ UNCHANGED dev
       /\ server_frame
       /\ thread_frame

\* server.py 118-125 with speakers.py 383-395: play_hosted_audio builds one
\* URL per device from its host_ip and the hash just stored
ControllerPlayHostedAudio(t) ==
    LET self == threads[t]
        selected == SelectedDevices(self.dev_ids)
    IN /\ self.pc = "play_hosted_audio"
       /\ threads' = [threads EXCEPT ![t] =
            [self EXCEPT
               !.urls = [d \in {selected[k] : k \in 1..Len(selected)} |->
                            HostedUrl(host_ip[d], current_audio_hash)],
               !.pc = "validate"]]
       /\ UNCHANGED dev
       /\ server_frame
       /\ thread_frame

\* Mutant of Release: the lock is given back only when the call returned.
Release_OnlyOnReturn(t) ==
    LET self == threads[t]
    IN /\ self.pc = "release"
       /\ play_lock' = IF self.exc = NoException THEN NoThread ELSE play_lock
       /\ threads' = [threads EXCEPT ![t].pc = "respond"]
       /\ UNCHANGED <<dev, current_mime_type, current_audio_bytes, current_audio_hash>>
       /\ thread_frame

\* server.py 61 and 114: the with block is left, by return or by exception
Release(t) ==
    LET self == threads[t]
    IN /\ self.pc = "release"
       /\ play_lock' = NoThread
       /\ threads' = [threads EXCEPT ![t].pc = "respond"]
       /\ UNCHANGED <<dev, current_mime_type, current_audio_bytes, current_audio_hash>>
       /\ thread_frame

\* server.py 65-74 and 126-134: 400 for a ValueError, 200 for a return; any
\* other exception leaves the handler and the response is a 500
Respond(t) ==
    LET self == threads[t]
    IN /\ self.pc = "respond"
       /\ threads' = [threads EXCEPT ![t] =
            [self EXCEPT !.pc = "done",
                         !.status_code = CASE self.exc = NoException -> 200
                                           [] self.exc = "ValueError" -> 400
                                           [] OTHER                   -> 500]]
       /\ UNCHANGED dev
       /\ server_frame
       /\ thread_frame

NextServer ==
    \/ \E t \in ServerThreads :
          \/ Parse(t)
          \/ Acquire(t)
          \/ SetCurrent(t)
          \/ ControllerPlayAudio(t)
          \/ ControllerPlayHostedAudio(t)
          \/ Orchestrates(t)
          \/ Release(t)
          \/ Respond(t)
    \/ \E d \in DeviceSet : ClipEnds(d)

SpecServer == InitServer /\ [][NextServer]_vars

\* ------------------------------------- uploads and fetches of hosted bytes
\* /play_bytes requests (uploads) run beside /play_bytes_audio requests
\* (fetches); a fetch takes no lock and reads the three nonlocals one by one.
Uploaders == {"u1", "u2"}

Fetchers == {"f1"}

\* The /play_bytes requests explored: two bodies, each with its own MIME type.
Uploads ==
    { [handler |-> "play_bytes", fault |-> "none",
       args |-> [body |-> "bytesA", mime |-> "audio/mpeg", volume |-> "1",
                 device_ids |-> "d1"]],
      [handler |-> "play_bytes", fault |-> "none",
       args |-> [body |-> "bytesB", mime |-> "audio/wav", volume |-> "1",
                 device_ids |-> "d1,d3"]] }

\* request.args.get("hash") of the fetches explored.
FetchHashes == {sha1(u.args.body) : u \in Uploads}

\* The locals of a /play_bytes_audio request that has not run yet.
NewFetch(hash) ==
    [handler |-> "play_bytes_audio",
     pc |-> "check_hash",
     args |-> [hash |-> hash],
     body |-> NoCurrent,
     mimetype |-> NoCurrent,
     status_code |-> 0]

InitCache ==
    /\ \E r \in [Uploaders -> Uploads], q \in [Fetchers -> FetchHashes] :
         threads = [t \in Uploaders \cup Fetchers |->
                      IF t \in Uploaders
                        THEN NewThread(r[t].handler, r[t].args, r[t].fault)
                        ELSE NewFetch(q[t])]
    /\ play_lock = NoThread
    /\ current_mime_type = NoCurrent
    /\ current_audio_bytes = NoCurrent
    /\ current_audio_hash = NoCurrent
    /\ PlayIdle
    /\ DiscoveryIdle

\* server.py 83-85: if hash != current_audio_hash: return abort(404)
FetchCheckHash(f) ==
    LET self == threads[f]
    IN /\ self.pc = "check_hash"
       /\ threads' = [threads EXCEPT ![f] =
            IF self.args.hash # current_audio_hash
              THEN [self EXCEPT !.status_code = 404, !.pc = "done"]
              ELSE [self EXCEPT !.pc = "check_bytes"]]
       /\ UNCHANGED dev
       /\ server_frame
       /\ thread_frame

\* server.py 86-87: if current_audio_bytes is None: return abort(404)
FetchCheckBytes(f) ==
    LET self == threads[f]
    IN /\ self.pc = "check_bytes"
       /\ threads' = [threads EXCEPT ![f] =
            IF current_audio_bytes = NoCurrent
              THEN [self EXCEPT !.status_code = 404, !.pc = "done"]
              ELSE [self EXCEPT !.pc = "read_bytes"]]
       /\ UNCHANGED dev
       /\ server_frame
       /\ thread_frame

\* server.py 89: io.BytesIO(current_audio_bytes), the first argument of send_file
FetchReadBytes(f) ==
    LET self == threads[f]
    IN /\ self.pc = "read_bytes"
       /\ threads' = [threads EXCEPT ![f] =
            [self EXCEPT !.body = current_audio_bytes, !.pc = "read_mime"]]
       /\ UNCHANGED dev
       /\ server_frame
       /\ thread_frame

\* server.py 88-94: mimetype=current_mime_type, and the file is sent
FetchReadMime(f) ==
    LET self == threads[f]
    IN /\ self.pc = "read_mime"
       /\ threads' = [threads EXCEPT ![f] =
            [self EXCEPT !.mimetype = current_mime_type, !.status_code = 200,
                         !.pc = "done"]]
       /\ UNCHANGED dev
       /\ server_frame
       /\ thread_frame

NextCache ==
    \/ \E t \in Uploaders :
          \/ Parse(t)
          \/ Acquire(t)
          \/ SetCurrent(t)
          \/ ControllerPlayHostedAudio(t)
          \/ Orchestrates(t)
          \/ Release(t)
          \/ Respond(t)
    \/ \E f \in Fetchers :
          \/ FetchCheckHash(f)
          \/ FetchCheckBytes(f)
          \/ FetchReadBytes(f)
          \/ FetchReadMime(f)
    \/ \E d \in DeviceSet : ClipEnds(d)

SpecCache == InitCache /\ [][NextCache]_vars

\* ============================================================== properties
\* The call got past the snapshot phase: neither rejected by validation nor
\* ended by a snapshot read that raised.
SnapshotCompleted ==
    /\ pc \notin {"validate", "snapshot"}
    /\ result.err.op # "ValueError"
    /\ \A k \in 1..Len(faults) : faults[k].phase # "snapshot"

\* The call has returned or raised.
Ended == result.kind # "none"

RestoreFaults == {k \in 1..Len(faults) : faults[k].phase = "restore"}

\* Restoration was attempted for every target, in snapshot order, each with
\* its snapshotted volume.
RestorationAttempted ==
    restored = [k \in 1..N |-> <<devices[k], prev_states[k].vol>>]

C2_RestoreOnEveryExit ==
    (Ended /\ SnapshotCompleted) => RestorationAttempted

\* C2 witness: a wait-for-completion poll raised with three target devices and
\* the call has ended.
C2_Witness ==
    /\ Ended
    /\ N = 3
    /\ faults # <<>> /\ faults[1].phase = "wait_done"
    /\ result.kind = "raised"

\* C3: when a start-phase call raises, the call ends by raising that call's
\* error, and when it does restoration has been attempted for every target
\* device: those started, the failing one and those never reached.
C3_StartFailure ==
    (Ended /\ faults # <<>> /\ faults[1].phase = "start") =>
        /\ result.kind = "raised"
        /\ result.err = Err(faults[1].dev, faults[1].op)
        /\ RestorationAttempted

\* C3 witness: of three target devices the second failed at set source; the
\* first was started and the third never reached.
C3_Witness ==
    /\ Ended
    /\ N = 3
    /\ faults # <<>> /\ faults[1].phase = "start"
    /\ faults[1].dev = "d2" /\ faults[1].op = "set_uri"
    /\ dev["d1"].uri = urls["d1"] /\ dev["d3"].uri = "radio"
    /\ Len(restored) = 3

\* C4: a restoration call that raises is caught: restoration is still attempted
\* for every target device in snapshot order, and the call returns, or raises
\* the exception of steps 3-5, as it would have without that failure.
C4_RestoreFailureCaught ==
    (Ended /\ SnapshotCompleted /\ RestoreFaults # {}) =>
        /\ RestorationAttempted
        /\ IF faults[1].phase = "restore"
             THEN result.kind = "returned" /\ result.err = NoExc
             ELSE result.kind = "raised" /\ result.err = Err(faults[1].dev, faults[1].op)

\* C4 witness: after a start-phase failure, restoring the first of three
\* devices raised, and the later devices were restored.
C4_Witness ==
    /\ Ended
    /\ N = 3
    /\ Len(faults) = 2
    /\ faults[1].phase = "start"
    /\ faults[2].phase = "restore" /\ faults[2].dev = "d1" /\ faults[2].op = "set_volume"
    /\ dev["d3"].vol = ClampVolume(prev_states[3].vol)
    /\ restored[3][1] = "d3"

RoundHalfEven(a, b) ==
    LET q == a \div b
        r == a % b
    IN IF 2 * r < b THEN q
       ELSE IF 2 * r > b THEN q + 1
       ELSE IF q % 2 = 0 THEN q ELSE q + 1

\* C6 as stated: the DesiredVolume sent to a device in the start phase is
\* round(f * (max - min)) + min and lies within the device's [min, max].
C6_TransmittedVolume ==
    (last.op = "set_volume" /\ last.phase = "start") =>
        LET min_vol == volume_range[last.dev][1]
            max_vol == volume_range[last.dev][2]
        IN /\ last.sent = RoundHalfEven(volume * (max_vol - min_vol), FracDen) + min_vol
           /\ min_vol <= last.sent /\ last.sent <= max_vol

\* C7 as stated: a round of wait-for-completion ends the phase exactly when
\* every target device has, on some poll of the phase, reported a URI other than
\* its own assigned URL or a status outside {PLAYING, TRANSITIONING}.
C7_CompletionExit ==
    [][(pc = "wait_done" /\ i = N + 1) =>
          ((pc' = "restore_vol") <=> (own_done = 1..N))]_vars

\* C8 as stated: in wait-for-start a device is marked switched only on a poll
\* that reported its own assigned URL, a mark is never cleared, and a round ends
\* the phase before the timeout exactly when every target device has reported
\* its own assigned URL.
C8_SwitchedByOwnUrl ==
    [][pc = "wait_start" =>
          /\ (pc' = "wait_start") =>
                \A k \in 1..N :
                   /\ devices_switched_uri[k] => devices_switched_uri'[k]
                   /\ (devices_switched_uri'[k] /\ ~devices_switched_uri[k]) =>
                         last'.uri = urls[devices[k]]
          /\ (round < start_timeout_seconds /\ i = N + 1) =>
                ((pc' = "wait_done") <=> (own_switched = 1..N))]_vars

\* C9: wait-for-start polls only while fewer than start_timeout_seconds rounds
\* are over; once that many rounds are over, whether or not any device reported
\* the target URI, the call goes on to wait-for-completion without raising and
\* without another control action.
C9_StartTimeoutAdvisory ==
    [][pc = "wait_start" =>
          /\ round <= start_timeout_seconds
          /\ round' <= start_timeout_seconds
          /\ (round >= start_timeout_seconds) =>
                /\ pc' = "wait_done"
                /\ exc' = NoExc /\ result' = NoResult
                /\ last' = last /\ faults' = faults /\ now' = now]_vars

\* C9 witness: wait-for-completion was entered after all start_timeout_seconds
\* rounds, with none of three devices ever marked switched.
C9_Witness ==
    /\ pc = "wait_done"
    /\ N = 3
    /\ start_timeout_seconds = MaxStartTimeout
    /\ round = start_timeout_seconds
    /\ \A k \in 1..N : ~devices_switched_uri[k]
    /\ exc = NoExc /\ faults = <<>>

\* C10 as stated, for a call in which no control action raised: the value
\* returned is the time from the start of the start phase to the completion of
\* wait-for-completion, restoration excluded.
C10_ReturnExcludesRestore ==
    (result.kind = "returned" /\ faults = <<>>) => result.value = t_done - t1

\* ------------------------------------------------------------------ C17
MutatingOps == {"stop", "set_volume", "set_uri", "play"}

ReadOps == {"get_transport_state", "get_volume"}

\* The ids of the request's targets: the inventory devices named in urls.
Targets == DeviceSet \cap DOMAIN urls

\* Before the latest call, the snapshot read `op` of device d was issued and returned.
SnapshotReadDone(d, op) ==
    \E a \in 1..(Len(calls) - 1) :
        /\ calls[a].dev = d /\ calls[a].op = op
        /\ calls[a].phase = "snapshot" /\ calls[a].ok

\* C17: whenever a mutating action (stop, set volume, set source, play) is
\* issued, the transport state and the volume of every target device have been
\* read before it; and when a snapshot read raises, the call ends by raising that
\* error with every device as it was before the call, nothing but snapshot reads
\* issued and no restoration call made.
C17_SnapshotBeforeMutation ==
    /\ (calls # <<>> /\ calls[Len(calls)].op \in MutatingOps) =>
          \A d \in Targets :
              /\ SnapshotReadDone(d, "get_transport_state")
              /\ SnapshotReadDone(d, "get_volume")
    /\ (faults # <<>> /\ faults[1].phase = "snapshot") =>
          /\ pc = "done"
          /\ result.kind = "raised"
          /\ result.err = Err(faults[1].dev, faults[1].op)
          /\ dev = dev0
          /\ restored = <<>>
          /\ \A k \in 1..Len(calls) :
                 calls[k].op \in ReadOps /\ calls[k].phase = "snapshot"

\* C17 witness: with three targets, reading the volume of the third raised after
\* the first two had been read, and the call has ended.
C17_Witness ==
    /\ Cardinality(Targets) = 3
    /\ Len(faults) = 1
    /\ faults[1].phase = "snapshot" /\ faults[1].dev = "d3"
    /\ faults[1].op = "get_volume"
    /\ Len(calls) = 6
    /\ pc = "done" /\ result.kind = "raised"

\* ------------------------------------------------------------------ C18
\* The control actions issued in one phase, in order.
PhaseCalls(phase) == SelectSeq(calls, LAMBDA c : c.phase = phase)

\* The targets in inventory order.
InventoryTargets == SelectSeq(DeviceIds, LAMBDA d : d \in Targets)

StartOps == <<"stop", "set_volume", "set_uri", "play">>

\* C18: the start-phase calls issued so far are a prefix of stop, set volume,
\* set source, play for the first target in inventory order, then the same four
\* for the second, and so on, set source carrying the device's own URL; only the
\* last of them can have raised, and then no later start-phase call and no poll
\* of either polling phase is ever issued; a poll is issued only after all four
\* calls of every target returned.
C18_StartOrder ==
    \A sc \in {PhaseCalls("start")},
       polls \in {Len(PhaseCalls("wait_start")) + Len(PhaseCalls("wait_done"))},
       tg \in {InventoryTargets} :
       /\ Len(sc) <= 4 * Len(tg)
       /\ \A k \in 1..Len(sc) :
             /\ sc[k].dev = tg[((k - 1) \div 4) + 1]
             /\ sc[k].op = StartOps[((k - 1) % 4) + 1]
             /\ sc[k].op = "set_uri" => sc[k].uri = urls[sc[k].dev]
             /\ k < Len(sc) => sc[k].ok
       /\ (sc # <<>> /\ ~sc[Len(sc)].ok) =>
             /\ polls = 0
             /\ pc \in {"restore_vol", "restore_uri", "restore_play", "done"}
       /\ polls > 0 => (Len(sc) = 4 * Len(tg) /\ sc[Len(sc)].ok)
       /\ pc \in {"wait_start", "wait_done"} => Len(sc) = 4 * Len(tg)

\* C18 witness: with three targets the play of the second raised; the call ended
\* with eight start-phase calls issued, none of them to the third device.
C18_Witness ==
    /\ pc = "done"
    /\ Len(InventoryTargets) = 3
    /\ Len(PhaseCalls("start")) = 8
    /\ PhaseCalls("start")[8] = Call("d2", "play", "start", FALSE)
    /\ PhaseCalls("start")[4] = Call("d1", "play", "start", TRUE)

\* ------------------------------------------------------------------ C19
\* The restoration calls issued to device d, in order.
RestoreCalls(d) == SelectSeq(calls, LAMBDA c : c.phase = "restore" /\ c.dev = d)

\* What restoration is to send to the device snapshotted as prev.
RestoreExpected(prev) ==
    <<[op |-> "set_volume", arg |-> prev.vol, uri |-> NoUri, meta |-> NoMeta]>>
    \o (IF prev.state.uri = NoUri
        THEN <<>>
        ELSE <<[op |-> "set_uri", arg |-> 0, uri |-> prev.state.uri,
                meta |-> prev.state.meta],
               [op |-> IF prev.state.state = "PLAYING" THEN "play" ELSE "stop",
                arg |-> 0, uri |-> NoUri, meta |-> NoMeta]>>)

\* Restoration is over for the k-th target.
RestoreOver(k) ==
    \/ pc = "done"
    \/ pc \in {"restore_vol", "restore_uri", "restore_play"} /\ i > k

\* C19: the restoration calls a target device has received are, in order, set
\* volume with its snapshotted volume, then, only if its snapshotted source URI
\* is non-empty, set source with the snapshotted URI and metadata and then play
\* if its snapshotted status was PLAYING and stop otherwise; the sequence stops
\* short only at a call that raised, and is complete once restoration is over
\* for a device none of whose restoration calls raised.
C19_RestoreSequence ==
    SnapshotCompleted =>
        \A rs \in {PhaseCalls("restore")}, k \in 1..N :
            \A rc \in {SelectSeq(rs, LAMBDA c : c.dev = devices[k])},
               ex \in {RestoreExpected(prev_states[k])} :
               /\ Len(rc) <= Len(ex)
               /\ \A j \in 1..Len(rc) :
                     /\ rc[j].op = ex[j].op /\ rc[j].arg = ex[j].arg
                     /\ rc[j].uri = ex[j].uri /\ rc[j].meta = ex[j].meta
                     /\ j < Len(rc) => rc[j].ok
               /\ RestoreOver(k) =>
                     /\ rc # <<>>
                     /\ rc[Len(rc)].ok => Len(rc) = Len(ex)

\* C19 witness: a call without a failure has ended; the first device, snapshotted
\* paused, received set volume, set source, stop; the second, snapshotted
\* playing, set volume, set source, play; the third, snapshotted without a
\* source, set volume alone.
C19_Witness ==
    /\ pc = "done" /\ faults = <<>> /\ N = 3
    /\ prev_states[1].state.state = "PAUSED_PLAYBACK"
    /\ Len(RestoreCalls("d1")) = 3 /\ RestoreCalls("d1")[3].op = "stop"
    /\ Len(RestoreCalls("d2")) = 3 /\ RestoreCalls("d2")[3].op = "play"
    /\ prev_states[3].state.uri = NoUri
    /\ Len(RestoreCalls("d3")) = 1 /\ RestoreCalls("d3")[1].op = "set_volume"

\* ------------------------------------------------------------------ C20
\* The inventory devices the request selects: by play_audio's device_ids (all
\* of them for None), or by the keys of urls.
Selected ==
    IF entry = "play_audio"
    THEN IF device_ids.given THEN {d \in DeviceSet : d \in device_ids.ids} ELSE DeviceSet
    ELSE {d \in DeviceSet : d \in DOMAIN urls}

\* C20: every control action, read or mutating, of every phase is issued to a
\* device the request selects, identifiers of the selector that no inventory
\* device has being ignored; and a request with a valid volume that selects no
\* device issues no control action at all and returns, with an elapsed time of
\* zero, without raising.
C20_OnlyTargetsContacted ==
    \A selected \in {Selected} :
        /\ contacted \subseteq selected
        /\ \A k \in 1..Len(calls) : calls[k].dev \in selected
        /\ last # NoCall => last.dev \in selected
        /\ (selected = {} /\ volume \in 0..FracDen) =>
              /\ calls = <<>> /\ contacted = {} /\ last = NoCall /\ now = 0
              /\ dev = dev0
              /\ pc = "done" => (result.kind = "returned" /\ result.value = 0)

\* C20 witness: play_audio was called with a selector naming the second device
\* and an unknown identifier; the call has returned after control actions of
\* every phase, all of them issued to the second device.
C20_Witness ==
    /\ entry = "play_audio"
    /\ device_ids = [given |-> TRUE, ids |-> {"d2", UnknownId}]
    /\ pc = "done" /\ result.kind = "returned"
    /\ contacted = {"d2"}
    /\ PhaseCalls("wait_done") # <<>> /\ PhaseCalls("restore") # <<>>

\* The empty selection: play_audio called with a selector of unknown identifiers
\* alone has returned.
EmptySelectionReturned ==
    /\ entry = "play_audio"
    /\ device_ids = [given |-> TRUE, ids |-> {UnknownId}]
    /\ pc = "done" /\ result.kind = "returned"

\* ------------------------------------------------------------------ C13
\* C13 as stated, for a call in which no control action has raised, "matching"
\* being equal to the URL assigned to the device: a round of wait-for-completion
\* at whose end every target device has been observed, on some poll of the
\* phase, with a non-matching URI or a status outside {PLAYING, TRANSITIONING}
\* goes on to restoration; and while some target device has reported the
\* matching URI with status PLAYING or TRANSITIONING on every poll so far, the
\* call stays in wait-for-completion and restoration is not reached.
C13_TerminatesOrBlocks ==
    [][(pc = "wait_done" /\ faults' = <<>>) =>
          /\ (i = N + 1 /\ own_done = 1..N) => pc' = "restore_vol"
          /\ (own_done # 1..N) => pc' = "wait_done"]_vars

\* The same with "matching" read as equal to the local url the polls compare
\* with, which is every device's own URL when all targets are assigned one URL.
TerminatesOrBlocksByLoopUrl ==
    [][(pc = "wait_done" /\ faults' = <<>>) =>
          /\ (i = N + 1 /\ All(devices_done_playing)) => pc' = "restore_vol"
          /\ ~All(devices_done_playing) => pc' = "wait_done"]_vars

\* ------------------------------------------------------------------ C14
\* The LOCATION value a response carries ("" for none).
LocationOf(response) == Get(Headers(response), "LOCATION")

\* The responses received that carry a LOCATION value no earlier one carried.
FirstArrivals ==
    {j \in 1..Len(received) :
        /\ LocationOf(received[j]) # ""
        /\ \A j2 \in 1..(j - 1) : LocationOf(received[j2]) # LocationOf(received[j])}

\* The k-th smallest member of a set of numbers.
Nth(S, k) == CHOOSE j \in S : Cardinality({x \in S : x < j}) = k - 1

\* C14: throughout ssdp_discover and when it returns, results holds exactly one
\* entry per distinct LOCATION value among the responses received, namely the
\* headers of the first response that carried it, the entries in the order of
\* those first arrivals; no entry is without a LOCATION value; and results never
\* has more than max_results entries.
C14_DedupeByLocation ==
    dpc \in {"recv", "returned"} =>
        /\ Len(results) = Cardinality(FirstArrivals)
        /\ \A k \in 1..Len(results) :
              /\ results[k] = Headers(received[Nth(FirstArrivals, k)])
              /\ Get(results[k], "LOCATION") # ""
        /\ \A k1, k2 \in 1..Len(results) :
              k1 # k2 => Get(results[k1], "LOCATION") # Get(results[k2], "LOCATION")
        /\ Len(results) <= max_results

\* C14 witness: ssdp_discover returned after receiving a response of locB, one
\* of locA and a second of locA with another USN: two entries, that of locB and
\* then the first of locA.
C14_Witness ==
    /\ dpc = "returned"
    /\ Len(received) = 3
    /\ LocationOf(received[1]) = "locB"
    /\ LocationOf(received[2]) = "locA"
    /\ LocationOf(received[3]) = "locA"
    /\ Get(Headers(received[2]), "USN") # Get(Headers(received[3]), "USN")
    /\ results = <<Headers(received[1]), Headers(received[2])>>

\* ------------------------------------------------------------------ C15
\* A description has no service entry of the given type with a control URL.
LacksService(description, prefix) ==
    ~ \E j \in 1..Len(description.services) :
        /\ description.services[j].st \in prefix
        /\ description.services[j].control # ""

LacksRequiredService(description) ==
    \/ LacksService(description, {AVTransport1, AVTransport2})
    \/ LacksService(description, {RenderingControl1})

\* C15: every load_device_info call whose description was fetched and parsed
\* and lacks a transport service entry or a rendering-control service entry with
\* a control URL returned None: it did not raise and issued no control action,
\* and the construction goes on; the inventory holds no device of that location
\* and holds, in order, one device for every call that returned a device.
C15_AbsentWithoutControlAction ==
    /\ \A k \in 1..Len(loads) :
          (loads[k].description # NoDescription
              /\ LacksRequiredService(loads[k].description)) =>
             /\ loads[k].returned = "None"
             /\ loads[k].soap = <<>>
             /\ k = Len(loads) => dpc # "failed"
             /\ \A j \in 1..Len(self_devices) :
                   self_devices[j].location # loads[k].location
    /\ LET made == SelectSeq(loads, LAMBDA l : l.returned = "Device")
       IN /\ Len(self_devices) = Len(made)
          /\ \A j \in 1..Len(made) : self_devices[j].location = made[j].location

\* C15 witness: the controller is constructed from two responses; the first
\* location's description has no transport service and was passed over, the
\* second location's device is in the inventory.
C15_Witness ==
    /\ dpc = "constructed"
    /\ Len(loads) = 2
    /\ LacksService(loads[1].description, {AVTransport1, AVTransport2})
    /\ ~LacksService(loads[1].description, {RenderingControl1})
    /\ loads[1].returned = "None"
    /\ loads[2].returned = "Device"
    /\ Len(self_devices) = 1
    /\ self_devices[1].location = loads[2].location

\* ------------------------------------------------------------------ C16
\* C16 as stated: once the controller is constructed every device of the
\* inventory has a non-empty identifier and no two of them share one.
C16_IdsNonEmptyUnique ==
    dpc = "constructed" =>
        /\ \A k \in 1..Len(self_devices) : self_devices[k].id # ""
        /\ \A k1, k2 \in 1..Len(self_devices) :
              k1 # k2 => self_devices[k1].id # self_devices[k2].id

\* ------------------------------------------------------------ C11
\* What a snapshot of device d taken before both calls would hold.
InitialSnapshot(d) ==
    [state |-> TransportStateOf(dev0[d].status, dev0[d].uri, dev0[d].meta),
     vol |-> dev0[d].vol]

\* Caller t snapshotted device d in a state other than the one before both calls.
SnapshotOfMutated(t, d) ==
    \E k \in 1..Len(threads[t].prev_states) :
        /\ threads[t].devices[k] = d
        /\ threads[t].prev_states[k] # InitialSnapshot(d)

BothReturned ==
    /\ Callers \subseteq DOMAIN threads
    /\ \A t \in Callers : threads[t].pc = "done" /\ threads[t].exc = NoException

\* C11: two play_url_per_device calls that run without serialisation on a
\* common device, no call failing, can leave it in a state other than the
\* one before both calls (C11_Witness is such an outcome), and whenever they
\* do, one of the calls snapshotted the device after the other had begun to
\* mutate it and restored that snapshot.
C11_InterleavedSnapshotRestored ==
    BothReturned =>
        \A d \in DeviceSet :
            dev[d] # dev0[d] => \E t \in Callers : SnapshotOfMutated(t, d)

C11_Witness ==
    /\ BothReturned
    /\ \A t \in Callers : "d1" \in DOMAIN threads[t].urls /\ ~threads[t].fired
    /\ dev["d1"] # dev0["d1"]
    /\ dev["d1"].uri \in ClipUrls
    /\ \E t \in Callers : SnapshotOfMutated(t, "d1")

\* ------------------------------------------------------------ C12
\* The thread is inside play_audio or play_hosted_audio.
Orchestrating(t) ==
    threads[t].pc \notin {"parse", "acquire", "set_mime", "set_bytes", "set_hash",
                          "release", "respond", "done"}

\* The thread is inside the with play_lock block of its handler.
InWithBlock(t) == threads[t].pc \notin {"parse", "acquire", "respond", "done"}

\* C12: among concurrent /play and /play_bytes requests at most one is inside
\* play_audio or play_hosted_audio at any time; the lock is held by exactly
\* the request inside its with block, so it is given back on every exit
\* (return, ValueError, any other exception) and is free, for a waiting
\* request to take, whenever no request is inside the block.
C12_PlayLock ==
    /\ \A t, u \in DOMAIN threads : Orchestrating(t) /\ Orchestrating(u) => t = u
    /\ \A t \in DOMAIN threads : InWithBlock(t) <=> play_lock = t
    /\ play_lock \in DOMAIN threads \cup {NoThread}
    /\ (\A t \in DOMAIN threads : ~InWithBlock(t)) => play_lock = NoThread

\* A request ended by an exception raised after the start, one ended by the
\* validation error, and the third, which waited for the lock, being served.
C12_Witness ==
    /\ ServerThreads \subseteq DOMAIN threads
    /\ \E t, u, w \in ServerThreads :
         /\ threads[t].pc = "done" /\ threads[t].status_code = 500
         /\ threads[t].fault = "start" /\ threads[t].fired
         /\ threads[u].pc = "done" /\ threads[u].status_code = 400
         /\ threads[u].devices = <<>> /\ CoerceFloat(threads[u].args.volume).ok
         /\ threads[u].handler = "play" /\ threads[u].args.url # ""
         /\ Orchestrating(w) /\ play_lock = w
         /\ threads[w].prev_states # <<>>

\* ------------------------------------------------------------ C21
\* The fetch has been answered with a body.
Served(f) ==
    /\ threads[f].handler = "play_bytes_audio"
    /\ threads[f].pc = "done"
    /\ threads[f].status_code = 200

\* C21: whenever /play_bytes_audio has served a body for a request carrying
\* hash h, the bytes served are those of the upload whose SHA-1 is h and the
\* MIME type served is the one uploaded with those bytes.
C21_ServedMatchesHash ==
    \A f \in DOMAIN threads :
        Served(f) =>
            /\ sha1(threads[f].body) = threads[f].args.hash
            /\ \E u \in DOMAIN threads :
                 /\ threads[u].handler = "play_bytes"
                 /\ threads[u].args.body = threads[f].body
                 /\ threads[u].args.mime = threads[f].mimetype

\* A fetch all of whose reads fall outside every upload's assignments: one
\* served while the last upload's three values were all in place.
ServedConsistently ==
    \E f \in DOMAIN threads :
        /\ Served(f)
        /\ sha1(threads[f].body) = threads[f].args.hash
        /\ threads[f].body = current_audio_bytes
        /\ threads[f].mimetype = current_mime_type
        /\ threads[f].args.hash = current_audio_hash

\* A fetch that passed the hash test before an upload replaced the bytes and
\* read them after: the body served is not the one whose SHA-1 was asked for.
ServedOtherBytes ==
    \E f \in DOMAIN threads :
        Served(f) /\ sha1(threads[f].body) # threads[f].args.hash

============================================================================
